---------------------------- MODULE Spec2Model ----------------------------
(***************************************************************************)
(* Model of the Empatica E4 streaming client (module e4client): the wire   *)
(* codec of protocol.py and the threads of client.py (the receive loop,    *)
(* the command-issuing callers and close()).                               *)
(*                                                                         *)
(* Bytes. A byte string is a sequence of atoms. The atoms " ", "\n" and    *)
(* "\r" are the single bytes 0x20, 0x0A and 0x0D; every other atom stands  *)
(* for a non-empty run of bytes holding none of these three. The framer    *)
(* looks only for "\n" and the decoder splits only on " ", so a read that  *)
(* cuts the stream inside a run behaves as a read that cuts it between two *)
(* atoms of the same line: the line stays partial either way.              *)
(***************************************************************************)
EXTENDS Integers, Sequences, FiniteSets, TLC

SP == " "
LF == "\n"
CR == "\r"

(***************************************************************************)
(* Bounds of the model.                                                    *)
(***************************************************************************)
NumCallers == 2
MaxCmds == 2
MaxSamples == 1
MaxGarbage == 1
MaxRead == 8
MaxLines == 2
MaxClose == 2
MaxConnAttempts == 2
MaxDevOps == 3
MaxArgs == 2
MaxDevices == 2
MaxOps == 2
MaxStreamSamples == 2

Callers == 1..NumCallers

(***************************************************************************)
(* protocol.py: the enumerations and the definition tables.                *)
(***************************************************************************)
DataStreamID == {"ACC", "BVP", "GSR", "TEMP", "IBI", "HR", "BAT", "TAG"}

CmdID == {"DEV_DISCOVER", "DEV_CONNECT_BTLE", "DEV_DISCONNECT_BTLE", "DEV_LIST",
          "DEV_CONNECT", "DEV_DISCONNECT", "DEV_SUBSCRIBE", "DEV_PAUSE"}

CommandDefinition(cmd_id, cmd, args, is_query) ==
    [cmd_id |-> cmd_id, cmd |-> cmd, args |-> args, is_query |-> is_query]

\* args: the schema in declaration order, each <<name, type>>
cmd_defs ==
    << CommandDefinition("DEV_DISCOVER", "device_discover_list", <<>>, TRUE),
       CommandDefinition("DEV_CONNECT_BTLE", "device_connect_btle",
                         << <<"dev", "str">>, <<"timeout", "int">> >>, FALSE),
       CommandDefinition("DEV_DISCONNECT_BTLE", "device_disconnect_btle",
                         << <<"dev", "str">> >>, FALSE),
       CommandDefinition("DEV_LIST", "device_list", <<>>, TRUE),
       CommandDefinition("DEV_CONNECT", "device_connect",
                         << <<"dev", "str">> >>, FALSE),
       CommandDefinition("DEV_DISCONNECT", "device_disconnect", <<>>, FALSE),
       CommandDefinition("DEV_SUBSCRIBE", "device_subscribe",
                         << <<"stream", "DataStreamID">>, <<"on", "bool">> >>, FALSE),
       CommandDefinition("DEV_PAUSE", "pause", << <<"on", "bool">> >>, FALSE) >>

id_to_cmd(cmd_id) ==
    LET i == CHOOSE j \in 1..Len(cmd_defs) : cmd_defs[j].cmd_id = cmd_id
    IN  cmd_defs[i]

\* a token is a byte string; a table key is one atom
InStrToCmd(tok) ==
    Len(tok) = 1 /\ \E j \in 1..Len(cmd_defs) : cmd_defs[j].cmd = tok[1]

str_to_cmd(tok) ==
    LET i == CHOOSE j \in 1..Len(cmd_defs) : cmd_defs[j].cmd = tok[1]
    IN  cmd_defs[i]

DataStream(stream_id, cmd_abbrv, resp_prefix) ==
    [stream_id |-> stream_id, cmd_abbrv |-> cmd_abbrv, resp_prefix |-> resp_prefix]

stream_defs ==
    << DataStream("ACC", "acc", "E4_Acc"),
       DataStream("BVP", "bvp", "E4_Bvp"),
       DataStream("GSR", "gsr", "E4_Gsr"),
       DataStream("TEMP", "tmp", "E4_Temp"),
       DataStream("IBI", "ibi", "E4_Ibi"),
       DataStream("HR", "ibi", "E4_Hr"),
       DataStream("BAT", "bat", "E4_Battery"),
       DataStream("TAG", "tag", "E4_Tag") >>

InPrefixToStream(tok) ==
    Len(tok) = 1 /\ \E j \in 1..Len(stream_defs) : stream_defs[j].resp_prefix = tok[1]

prefix_to_stream(tok) ==
    LET i == CHOOSE j \in 1..Len(stream_defs) : stream_defs[j].resp_prefix = tok[1]
    IN  stream_defs[i]

id_to_stream(stream_id) ==
    LET i == CHOOSE j \in 1..Len(stream_defs) : stream_defs[j].stream_id = stream_id
    IN  stream_defs[i]

(***************************************************************************)
(* Python's str operations on byte strings of atoms.                       *)
(***************************************************************************)
\* the index of the first d in s, 0 when there is none
Find(s, d) ==
    IF \E i \in 1..Len(s) : s[i] = d
    THEN CHOOSE i \in 1..Len(s) : s[i] = d /\ \A j \in 1..(i - 1) : s[j] # d
    ELSE 0

\* str.partition(d): <<head, sep, tail>>, and <<s, "", "">> when d is not in s
Partition(s, d) ==
    LET i == Find(s, d)
    IN  IF i = 0 THEN << s, <<>>, <<>> >>
        ELSE << SubSeq(s, 1, i - 1), <<d>>, SubSeq(s, i + 1, Len(s)) >>

\* str.split(d): the pieces between every two occurrences of d
RECURSIVE Split(_, _)
Split(s, d) ==
    LET i == Find(s, d)
    IN  IF i = 0 THEN << s >>
        ELSE << SubSeq(s, 1, i - 1) >> \o Split(SubSeq(s, i + 1, Len(s)), d)

\* the atoms that are the text of a number, and the number
NumAtoms == {"1", "2", "3"}
NumVal(a) == CASE a = "1" -> 1 [] a = "2" -> 2 [] a = "3" -> 3

\* the atoms whose text begins with E4_
E4Atoms == {stream_defs[j].resp_prefix : j \in 1..Len(stream_defs)} \cup {"E4_Bogus"}

\* str.startswith('E4_')
StartsWithE4(tok) == Len(tok) > 0 /\ tok[1] \in E4Atoms

\* float() strips surrounding whitespace before it converts
RECURSIVE Strip(_)
Strip(tok) ==
    IF Len(tok) > 0 /\ tok[1] = CR THEN Strip(Tail(tok))
    ELSE IF Len(tok) > 0 /\ tok[Len(tok)] = CR THEN Strip(SubSeq(tok, 1, Len(tok) - 1))
    ELSE tok

IsFloat(tok) == Len(Strip(tok)) = 1 /\ Strip(tok)[1] \in NumAtoms
Float(tok) == NumVal(Strip(tok)[1])

(***************************************************************************)
(* protocol.py: _parse_incoming_message.  The result is either             *)
(* [exc |-> the exception raised] or [exc |-> "none", type, msg].          *)
(***************************************************************************)
None == "None"

ServerReply(command, status, d) == [command |-> command, status |-> status, data |-> d]

StreamingDataSample(stream, timestamp, d) ==
    [stream |-> stream, timestamp |-> timestamp, data |-> d]

Raise(e) == [exc |-> e]
Return(type, msg) == [exc |-> "none", type |-> type, msg |-> msg]

StatusOf(status_str) == IF status_str = <<"OK">> THEN "SUCCESS" ELSE "ERROR"

\* the status branch with no special case for pause
parse_status_pause_checked(cmd, message) ==
    LET m == IF cmd.cmd_id = "DEV_SUBSCRIBE"
             THEN Partition(message, SP)[3] ELSE message
        status_str == Partition(m, SP)[1]
    IN  Return("STATUS_RESP", ServerReply(cmd.cmd_id, StatusOf(status_str), None))

\* the status branch that does not pop the stream of a subscribe reply
parse_status_no_pop(cmd, message) ==
    IF cmd.cmd_id = "DEV_PAUSE"
    THEN Return("STATUS_RESP", ServerReply(cmd.cmd_id, "SUCCESS", None))
    ELSE LET status_str == Partition(message, SP)[1]
         IN  Return("STATUS_RESP", ServerReply(cmd.cmd_id, StatusOf(status_str), None))

parse_status(cmd, message) ==
    IF cmd.cmd_id = "DEV_PAUSE"
    THEN Return("STATUS_RESP", ServerReply(cmd.cmd_id, "SUCCESS", None))
    ELSE LET m == IF cmd.cmd_id = "DEV_SUBSCRIBE"
                  THEN Partition(message, SP)[3] ELSE message
             status_str == Partition(m, SP)[1]
         IN  Return("STATUS_RESP", ServerReply(cmd.cmd_id, StatusOf(status_str), None))

parse_response(message) ==
    LET p == Partition(message, SP)
        cmd_str == p[1]
    IN  IF ~InStrToCmd(cmd_str) THEN Raise("KeyError")
        ELSE LET cmd == str_to_cmd(cmd_str)
             IN  IF cmd.is_query
                 THEN Return("QUERY_REPLY", ServerReply(cmd.cmd_id, "SUCCESS", p[3]))
                 ELSE parse_status(cmd, p[3])

parse_sample(msg_t, message) ==
    IF ~InPrefixToStream(msg_t) THEN Raise("KeyError")
    ELSE LET sub_id == prefix_to_stream(msg_t).stream_id
             payload == Split(message, SP)
         IN  IF \E i \in 1..Len(payload) : ~IsFloat(payload[i])
             THEN Raise("ValueError")
             ELSE Return("STREAM_DATA",
                         StreamingDataSample(sub_id, Float(payload[1]),
                             [i \in 1..(Len(payload) - 1) |-> Float(payload[i + 1])]))

parse_incoming_message(message) ==
    LET p == Partition(message, SP)
        msg_t == p[1]
    IN  IF msg_t = <<"R">> THEN parse_response(p[3])
        ELSE IF StartsWithE4(msg_t) THEN parse_sample(msg_t, p[3])
        ELSE Raise("RuntimeError")

(***************************************************************************)
(* protocol.py: _parse_device_list.  The result is either                  *)
(* [exc |-> the exception raised] or [exc |-> "none", devices].            *)
(***************************************************************************)
E4Device(uid, name, allowed) == [uid |-> uid, name |-> name, allowed |-> allowed]

\* str.strip()
RECURSIVE StripWs(_)
StripWs(tok) ==
    IF Len(tok) > 0 /\ tok[1] \in {SP, CR, LF} THEN StripWs(Tail(tok))
    ELSE IF Len(tok) > 0 /\ tok[Len(tok)] \in {SP, CR, LF}
    THEN StripWs(SubSeq(tok, 1, Len(tok) - 1))
    ELSE tok

\* the atoms int() accepts, and their value
IntAtoms == { ToString(n) : n \in 0..9 }
IsInt(tok) == Len(tok) = 1 /\ tok[1] \in IntAtoms
IntVal(tok) == CHOOSE n \in 0..9 : ToString(n) = tok[1]

\* every device counts as allowed
AllowedAlways(e) == TRUE

\* allowed = (e == 'allowed') if len(e) > 0 else True
Allowed(e) == IF Len(e) > 0 THEN e = << "allowed" >> ELSE TRUE

ParseDevice(e) ==
    LET p1 == Partition(e, SP)
        p2 == Partition(p1[3], SP)
    IN  E4Device(p1[1], p2[1], Allowed(p2[3]))

parse_device_list(str_list) ==
    LET split == Split(str_list, "|")
        elems == [i \in 1..Len(split) |-> StripWs(split[i])]
        first == elems[1]
        rest == Tail(elems)
    IN  IF ~IsInt(first) THEN Raise("ValueError")
        ELSE IF Len(rest) # IntVal(first) THEN Raise("AssertionError")
        ELSE [exc |-> "none", devices |-> [i \in 1..Len(rest) |-> ParseDevice(rest[i])]]

(***************************************************************************)
(* protocol.py: _CommandDefinition.gen_cmd_string.  kwargs is the keyword  *)
(* arguments in the caller's order, each <<name, [type, val]>>.  The       *)
(* result is [exc |-> the exception raised] or [exc |-> "none", str].      *)
(***************************************************************************)
StrArg(v) == [type |-> "str", val |-> v]
IntArg(v) == [type |-> "int", val |-> v]
BoolArg(v) == [type |-> "bool", val |-> v]
StreamArg(v) == [type |-> "DataStreamID", val |-> v]

\* the text of a value in an f-string, after booleans and stream ids are replaced
Format(v) ==
    CASE v.type = "bool" -> IF v.val THEN "ON" ELSE "OFF"
      [] v.type = "DataStreamID" -> id_to_stream(v.val).cmd_abbrv
      [] v.type = "int" -> ToString(v.val)
      [] OTHER -> v.val

InArgs(args, name) == \E i \in 1..Len(args) : args[i][1] = name
ArgType(args, name) == args[CHOOSE i \in 1..Len(args) : args[i][1] = name][2]
KwVal(kwargs, name) == kwargs[CHOOSE i \in 1..Len(kwargs) : kwargs[i][1] = name][2]

RECURSIVE Join(_)
Join(toks) ==
    IF Len(toks) = 0 THEN <<>>
    ELSE IF Len(toks) = 1 THEN << toks[1] >>
    ELSE << toks[1], SP >> \o Join(Tail(toks))

gen_cmd_string(def, kwargs) ==
    IF Len(kwargs) # Len(def.args) THEN Raise("AssertionError")
    ELSE IF \E i \in 1..Len(kwargs) :
                \/ ~InArgs(def.args, kwargs[i][1])
                \/ kwargs[i][2].type # ArgType(def.args, kwargs[i][1])
    THEN Raise("RuntimeError")
    ELSE [exc |-> "none",
          str |-> << def.cmd, SP >>
                  \o Join([i \in 1..Len(def.args) |-> Format(KwVal(kwargs, def.args[i][1]))])
                  \o << CR, LF >>]

gen_command_string(cmd_id, kwargs) == gen_cmd_string(id_to_cmd(cmd_id), kwargs)

(***************************************************************************)
(* The state.                                                              *)
(*   client.py, E4StreamingClient: connected (_connected), resp_q          *)
(*   (_resp_q), sub_qs (_sub_qs), sock (_socket: "open", "shutdown" after  *)
(*   shutdown(), "closed" after close(), "reset" once the transport fails, *)
(*   "eof" once the peer has closed its end in an orderly way).            *)
(*   The receive thread: rpc (where _recv_loop stands), data (its buffer), *)
(*   cur (the reply it is depositing), rexc (the exception that ended it). *)
(*   The callers of _send_command: cpc, ccmd, cresp, cerr.                 *)
(*   The thread in close(): clpc.                                          *)
(*   The transport: wire_in (bytes sent by the server and not yet read),   *)
(*   wire_out (the commands written and not yet served), crlf (whether the *)
(*   server ends its lines with CR LF or with a bare LF), frag (whether    *)
(*   the network hands the bytes over in arbitrary fragments or recv       *)
(*   returns all that has arrived, up to its buffer size).                 *)
(*   History: nDecoded numbers the decoded messages, nSent the commands    *)
(*   written, cseq[c] is the number of c's command, replyFor lists for     *)
(*   each reply the server sent the number of the command it answers and   *)
(*   the last token of the line,                                           *)
(*   nReplies counts the replies decoded, evicted and taken hold the       *)
(*   numbers of the replies the receive loop discarded and the callers     *)
(*   took, nSamples and nGarbage count what the server sent unasked,       *)
(*   lines and partial are the input of the framing runs (the complete    *)
(*   lines and the unterminated bytes after them) and handed is what the   *)
(*   receive loop gave to the decoder in those runs.                       *)
(*   The constructor: ipc, attempts, nConnect, max_conn_attempts; nClose   *)
(*   counts the calls of close().  The device connection: subscriptions,   *)
(*   paused, dop, dpc, darg, todo, derr, dlog, nToggle, nDevOps.  encIn    *)
(*   is the command and the keyword arguments of the encoding runs.        *)
(*   fcall, fpc, fres, nOps are the public operation of the client a       *)
(*   thread has called, where it stands and how it ended; listIn is the    *)
(*   device list of the decoding runs.  srvSub is the                      *)
(*   set of stream abbreviations switched on in the server.  All of these  *)
(*   are described where their actions are.                                *)
(***************************************************************************)
VARIABLES connected, sock, resp_q, sub_qs, rpc, data, cur, rexc,
          cpc, ccmd, cresp, cerr, clpc,
          wire_in, wire_out, crlf, frag,
          nDecoded, nSent, cseq, replyFor, nReplies, evicted, taken,
          nSamples, nGarbage, lines, partial, handed,
          ipc, attempts, nConnect, max_conn_attempts, nClose,
          subscriptions, paused, dop, dpc, darg, todo, derr, dlog, nToggle, nDevOps,
          encIn, fcall, fpc, fres, nOps, listIn, srvSub

clientVars == << connected, sock, resp_q, sub_qs >>
recvVars == << rpc, data, cur, rexc >>
callerVars == << cpc, ccmd, cresp, cerr, cseq >>
netVars == << wire_in, wire_out, crlf, frag >>
histVars == << nDecoded, nSent, replyFor, nReplies, evicted, taken,
               nSamples, nGarbage, lines, partial, handed >>
ctorVars == << ipc, attempts, nConnect, max_conn_attempts >>
devVars == << subscriptions, paused, dop, dpc, darg, todo, derr, dlog, nToggle,
             nDevOps >>
facadeVars == << fcall, fpc, fres, nOps, listIn >>
restVars == << encIn, facadeVars, srvSub >>
extVars == << ctorVars, devVars, restVars >>
vars == << clientVars, recvVars, callerVars, clpc, netVars, histVars, nClose, extVars >>

\* queue.Queue(maxsize=1)
resp_q_maxsize == 1

NoReply == [msg |-> ServerReply("none", "none", None), id |-> 0, tag |-> 0]

(***************************************************************************)
(* client.py: the public operations a caller invokes, each a call of       *)
(* _send_command with fixed keyword arguments.                             *)
(***************************************************************************)
Ops == {"list_connected_devices", "connect_to_device"}

OpCmd(op) ==
    CASE op = "list_connected_devices" -> "DEV_LIST"
      [] op = "connect_to_device" -> "DEV_CONNECT"
      [] op = "subscribe_to_stream" -> "DEV_SUBSCRIBE"
      [] op = "pause" -> "DEV_PAUSE"

OpKwargs(op) ==
    CASE op = "list_connected_devices" -> <<>>
      [] op = "connect_to_device" -> << <<"dev", StrArg("A1")>> >>
      [] op = "subscribe_to_stream" ->
             << <<"stream", StreamArg("ACC")>>, <<"on", BoolArg(TRUE)>> >>
      [] op = "pause" -> << <<"on", BoolArg(TRUE)>> >>

(***************************************************************************)
(* client.py: _send_command, first half: encode and write.                 *)
(* sendall raises OSError on a socket that is no longer open.              *)
(***************************************************************************)
SendCommand(c, cmd_id, kwargs) ==
    /\ cpc[c] \in {"idle", "returned", "raised"}
    /\ LET g == gen_command_string(cmd_id, kwargs)
       IN  IF g.exc # "none"
           THEN /\ cpc' = [cpc EXCEPT ![c] = "raised"]
                /\ cerr' = [cerr EXCEPT ![c] = g.exc]
                /\ UNCHANGED << wire_out, nSent, cseq >>
           ELSE IF sock \notin {"open", "eof"}
           THEN /\ cpc' = [cpc EXCEPT ![c] = "raised"]
                /\ cerr' = [cerr EXCEPT ![c] = "OSError"]
                /\ UNCHANGED << wire_out, nSent, cseq >>
           ELSE /\ wire_out' = Append(wire_out, g.str)
                /\ nSent' = nSent + 1
                /\ cseq' = [cseq EXCEPT ![c] = nSent + 1]
                /\ cpc' = [cpc EXCEPT ![c] = "wait"]
                /\ cerr' = [cerr EXCEPT ![c] = "none"]
    /\ ccmd' = [ccmd EXCEPT ![c] = cmd_id]
    /\ cresp' = [cresp EXCEPT ![c] = NoReply]
    /\ UNCHANGED << clientVars, recvVars, clpc, wire_in, crlf, frag >>
    /\ UNCHANGED << nDecoded, replyFor, nReplies, evicted, taken,
                    nSamples, nGarbage, lines, partial, handed >>
    /\ UNCHANGED << nClose, ctorVars >>

\* a thread calls one of the public operations of the client
CallerSend(c, op) ==
    /\ ipc = "constructed"
    /\ nSent < MaxCmds
    /\ SendCommand(c, OpCmd(op), OpKwargs(op))
    /\ UNCHANGED << devVars, restVars >>

\* the assert left out
AssertCommandSkipped(resp, cmd_id) == TRUE

\* assert resp.command == cmd_id
AssertCommand(resp, cmd_id) == resp.command = cmd_id

(***************************************************************************)
(* client.py: _send_command, second half: the blocking get, the assert,    *)
(* the return.                                                             *)
(***************************************************************************)
\* the get that reads the reply and leaves it in the mailbox
CallerGetPeek(c) ==
    /\ cpc[c] = "wait"
    /\ Len(resp_q) > 0
    /\ LET resp == Head(resp_q)
       IN  /\ resp_q' = resp_q
           /\ cresp' = [cresp EXCEPT ![c] = resp]
           /\ taken' = taken \cup {resp.id}
           /\ IF AssertCommand(resp.msg, ccmd[c])
              THEN /\ cpc' = [cpc EXCEPT ![c] = "returned"]
                   /\ cerr' = cerr
              ELSE /\ cpc' = [cpc EXCEPT ![c] = "raised"]
                   /\ cerr' = [cerr EXCEPT ![c] = "AssertionError"]
    /\ UNCHANGED << connected, sock, sub_qs, recvVars, ccmd, cseq, clpc, netVars >>
    /\ UNCHANGED << nDecoded, nSent, replyFor, nReplies, evicted,
                    nSamples, nGarbage, lines, partial, handed >>
    /\ UNCHANGED << nClose, extVars >>

CallerGet(c) ==
    /\ cpc[c] = "wait"
    /\ Len(resp_q) > 0
    /\ LET resp == Head(resp_q)
       IN  /\ resp_q' = Tail(resp_q)
           /\ cresp' = [cresp EXCEPT ![c] = resp]
           /\ taken' = taken \cup {resp.id}
           /\ IF AssertCommand(resp.msg, ccmd[c])
              THEN /\ cpc' = [cpc EXCEPT ![c] = "returned"]
                   /\ cerr' = cerr
              ELSE /\ cpc' = [cpc EXCEPT ![c] = "raised"]
                   /\ cerr' = [cerr EXCEPT ![c] = "AssertionError"]
    /\ UNCHANGED << connected, sock, sub_qs, recvVars, ccmd, cseq, clpc, netVars >>
    /\ UNCHANGED << nDecoded, nSent, replyFor, nReplies, evicted,
                    nSamples, nGarbage, lines, partial, handed >>
    /\ UNCHANGED << nClose, extVars >>

(***************************************************************************)
(* client.py: _recv_loop.                                                  *)
(***************************************************************************)
Min(a, b) == IF a < b THEN a ELSE b

\* an atom standing for bytes that are not valid UTF-8
BadBytes == "0xFF"

\* bytes.decode('utf-8')
Utf8Decode(raw) ==
    IF \E i \in 1..Len(raw) : raw[i] = BadBytes
    THEN Raise("UnicodeDecodeError")
    ELSE [exc |-> "none", text |-> raw]

\* the sizes recv may return when avail bytes have arrived
ReadSizes(avail) ==
    IF frag THEN 1..Min(avail, MaxRead) ELSE { Min(avail, MaxRead) }

\* data += self._socket.recv(64): blocks while an open socket has nothing to
\* read; returns what is there, or b'' at the end of a socket shut down; raises
\* socket.error on a socket that was closed or whose connection failed.
RecvRead ==
    /\ rpc = "recv"
    /\ IF sock \in {"reset", "closed"}
       THEN /\ rpc' = "done"
            /\ UNCHANGED << data, wire_in >>
       ELSE IF Len(wire_in) > 0
       THEN \E n \in ReadSizes(Len(wire_in)) :
               /\ data' = data \o SubSeq(wire_in, 1, n)
               /\ wire_in' = SubSeq(wire_in, n + 1, Len(wire_in))
               /\ rpc' = "split"
       ELSE /\ sock \in {"shutdown", "eof"}
            /\ rpc' = "split"
            /\ UNCHANGED << data, wire_in >>
    /\ UNCHANGED << clientVars, cur, rexc, callerVars, clpc, wire_out, crlf, frag, histVars >>
    /\ UNCHANGED << nClose, extVars >>

\* if len(lim) == len(rest) == 0: break
NoCompleteMessage(lim, rest) == Len(lim) = Len(rest) /\ Len(rest) = 0

\* the sample put on the queue of its stream and on the queue of the ACC stream
PutSampleTwice(qs, sample, id) ==
    [s \in DOMAIN qs |->
        IF s = sample.stream \/ s = "ACC"
        THEN Append(qs[s], [item |-> << sample.timestamp >> \o sample.data, id |-> id])
        ELSE qs[s]]

\* the sample put at the head of the queue of its stream
PutSampleFront(qs, sample, id) ==
    [qs EXCEPT ![sample.stream] =
        << [item |-> << sample.timestamp >> \o sample.data, id |-> id] >> \o @]

\* self._sub_qs[parsed_msg.stream].put((parsed_msg.timestamp, *parsed_msg.data))
PutSample(qs, sample, id) ==
    [qs EXCEPT ![sample.stream] =
        Append(@, [item |-> << sample.timestamp >> \o sample.data, id |-> id])]

\* one turn of the inner loop: partition, decode, parse, and route a sample
RecvSplit ==
    /\ rpc = "split"
    /\ LET p == Partition(data, LF)
           raw_msg == p[1]
           d == Utf8Decode(raw_msg)
           r == IF d.exc # "none" THEN d ELSE parse_incoming_message(d.text)
       IN  IF NoCompleteMessage(p[2], p[3])
           THEN /\ rpc' = "recv"
                /\ UNCHANGED << data, cur, rexc, sub_qs, nDecoded, nReplies, handed >>
           ELSE /\ data' = p[3]
                /\ handed' = IF Len(lines) > 0 THEN Append(handed, raw_msg) ELSE handed
                /\ IF r.exc # "none"
                   THEN /\ rpc' = "crashed"
                        /\ rexc' = r.exc
                        /\ UNCHANGED << cur, sub_qs, nDecoded, nReplies >>
                   ELSE /\ nDecoded' = nDecoded + 1
                        /\ rexc' = rexc
                        /\ IF r.type = "STREAM_DATA"
                           THEN /\ sub_qs' = PutSample(sub_qs, r.msg, nDecoded + 1)
                                /\ rpc' = "split"
                                /\ UNCHANGED << cur, nReplies >>
                           ELSE /\ cur' = [msg |-> r.msg, id |-> nDecoded + 1,
                                           tag |-> IF nReplies < Len(replyFor)
                                                   THEN replyFor[nReplies + 1].cmd ELSE 0]
                                /\ nReplies' = nReplies + 1
                                /\ rpc' = "evict"
                                /\ UNCHANGED sub_qs
    /\ UNCHANGED << connected, sock, resp_q, callerVars, clpc, netVars >>
    /\ UNCHANGED << nSent, replyFor, evicted, taken, nSamples, nGarbage, lines, partial >>
    /\ UNCHANGED << nClose, extVars >>

\* the loop that empties the mailbox left out: straight to put_nowait
RecvEvictSkipped ==
    /\ rpc = "evict"
    /\ rpc' = "put"
    /\ UNCHANGED << clientVars, data, cur, rexc, callerVars, clpc, netVars, histVars >>
    /\ UNCHANGED << nClose, extVars >>

\* self._resp_q.get_nowait(), until it raises queue.Empty
RecvEvict ==
    /\ rpc = "evict"
    /\ IF Len(resp_q) > 0
       THEN /\ resp_q' = Tail(resp_q)
            /\ evicted' = evicted \cup {Head(resp_q).id}
            /\ rpc' = "evict"
       ELSE /\ rpc' = "put"
            /\ UNCHANGED << resp_q, evicted >>
    /\ UNCHANGED << connected, sock, sub_qs, data, cur, rexc, callerVars, clpc, netVars >>
    /\ UNCHANGED << nDecoded, nSent, replyFor, nReplies, taken,
                    nSamples, nGarbage, lines, partial, handed >>
    /\ UNCHANGED << nClose, extVars >>

\* except queue.Empty: self._resp_q.put_nowait(parsed_msg); break
RecvPut ==
    /\ rpc = "put"
    /\ IF Len(resp_q) < resp_q_maxsize
       THEN /\ resp_q' = Append(resp_q, cur)
            /\ rpc' = "split"
            /\ rexc' = rexc
       ELSE /\ rpc' = "crashed"
            /\ rexc' = "Full"
            /\ resp_q' = resp_q
    /\ UNCHANGED << connected, sock, sub_qs, data, cur, callerVars, clpc, netVars, histVars >>
    /\ UNCHANGED << nClose, extVars >>

(***************************************************************************)
(* client.py: close(), one step for each statement; nClose counts the      *)
(* calls.  shutdown() raises OSError on a socket that is not connected     *)
(* any more: one that was closed, or whose connection has failed.          *)
(***************************************************************************)
\* close() without the test of _connected
CloseCheckAlways ==
    /\ ipc = "constructed"
    /\ clpc \in {"idle", "returned", "raised"}
    /\ nClose < MaxClose
    /\ nClose' = nClose + 1
    /\ clpc' = "shutdown"
    /\ UNCHANGED << clientVars, recvVars, callerVars, netVars, histVars, extVars >>

\* if self._connected:
CloseCheck ==
    /\ ipc = "constructed"
    /\ clpc \in {"idle", "returned", "raised"}
    /\ nClose < MaxClose
    /\ nClose' = nClose + 1
    /\ clpc' = IF connected THEN "shutdown" ELSE "returned"
    /\ UNCHANGED << clientVars, recvVars, callerVars, netVars, histVars, extVars >>

CloseShutdown ==
    /\ clpc = "shutdown"
    /\ IF sock \in {"open", "eof"}
       THEN sock' = "shutdown" /\ clpc' = "close"
       ELSE sock' = sock /\ clpc' = "raised"
    /\ UNCHANGED << connected, resp_q, sub_qs, recvVars, callerVars, netVars, histVars >>
    /\ UNCHANGED << nClose, extVars >>

CloseSocket ==
    /\ clpc = "close"
    /\ sock' = "closed"
    /\ clpc' = "join"
    /\ UNCHANGED << connected, resp_q, sub_qs, recvVars, callerVars, netVars, histVars >>
    /\ UNCHANGED << nClose, extVars >>

CloseJoin ==
    /\ clpc = "join"
    /\ rpc \in {"done", "crashed"}
    /\ clpc' = "mark"
    /\ UNCHANGED << clientVars, recvVars, callerVars, netVars, histVars >>
    /\ UNCHANGED << nClose, extVars >>

CloseMark ==
    /\ clpc = "mark"
    /\ connected' = FALSE
    /\ clpc' = "returned"
    /\ UNCHANGED << sock, resp_q, sub_qs, recvVars, callerVars, netVars, histVars >>
    /\ UNCHANGED << nClose, extVars >>

(***************************************************************************)
(* The streaming server and the network, as protocol.py documents them:    *)
(* one reply for each command, in the order of the commands; samples of    *)
(* the streams; lines the client cannot decode; a failure of the           *)
(* connection.                                                             *)
(***************************************************************************)
EOL == IF crlf THEN << CR, LF >> ELSE << LF >>

DeviceListPayload == << "1", SP, "|", SP, "A1", SP, "Dev" >>

ReplyLines(cmdline) ==
    LET cmd == str_to_cmd(<< cmdline[1] >>)
        head == << "R", SP, cmd.cmd, SP >>
    IN  IF cmd.is_query THEN { head \o DeviceListPayload }
        ELSE IF cmd.cmd_id = "DEV_PAUSE" THEN { head \o << cmdline[3] >> }
        ELSE IF cmd.cmd_id = "DEV_SUBSCRIBE"
        THEN { head \o << cmdline[3], SP, st >> : st \in {"OK", "ERR"} }
        ELSE { head \o << st >> : st \in {"OK", "ERR"} }

SampleLines == { << "E4_Temp", SP, "2", SP, "1" >> }

GarbageLines == { << "X" >>,
                  << "R", SP, "bogus", SP, "OK" >>,
                  << "E4_Temp", SP, "x" >> }

\* the server keeps one ON/OFF flag for each stream abbreviation: a subscribe
\* command it answers with OK sets the flag as the command says
SrvFlags(cmdline, line, flags) ==
    IF cmdline[1] = "device_subscribe" /\ line[Len(line)] = "OK"
    THEN IF cmdline[5] = "ON" THEN flags \cup {cmdline[3]} ELSE flags \ {cmdline[3]}
    ELSE flags

ServerReplies ==
    /\ sock = "open"
    /\ Len(wire_out) > 0
    /\ \E line \in ReplyLines(Head(wire_out)) :
          /\ wire_in' = wire_in \o line \o EOL
          /\ replyFor' = Append(replyFor, [cmd |-> Len(replyFor) + 1,
                                           tok |-> line[Len(line)]])
          /\ srvSub' = SrvFlags(Head(wire_out), line, srvSub)
    /\ wire_out' = Tail(wire_out)
    /\ UNCHANGED << clientVars, recvVars, callerVars, clpc, crlf, frag >>
    /\ UNCHANGED << nDecoded, nSent, nReplies, evicted, taken,
                    nSamples, nGarbage, lines, partial, handed >>
    /\ UNCHANGED << nClose, ctorVars, devVars, encIn, facadeVars >>

ServerSample ==
    /\ sock = "open"
    /\ nSamples < MaxSamples
    /\ \E line \in SampleLines : wire_in' = wire_in \o line \o EOL
    /\ nSamples' = nSamples + 1
    /\ UNCHANGED << clientVars, recvVars, callerVars, clpc, wire_out, crlf, frag >>
    /\ UNCHANGED << nDecoded, nSent, replyFor, nReplies, evicted, taken,
                    nGarbage, lines, partial, handed >>
    /\ UNCHANGED << nClose, extVars >>

ServerGarbage ==
    /\ sock = "open"
    /\ nGarbage < MaxGarbage
    /\ \E line \in GarbageLines : wire_in' = wire_in \o line \o EOL
    /\ nGarbage' = nGarbage + 1
    /\ UNCHANGED << clientVars, recvVars, callerVars, clpc, wire_out, crlf, frag >>
    /\ UNCHANGED << nDecoded, nSent, replyFor, nReplies, evicted, taken,
                    nSamples, lines, partial, handed >>
    /\ UNCHANGED << nClose, extVars >>

NetError ==
    /\ sock = "open"
    /\ sock' = "reset"
    /\ UNCHANGED << connected, resp_q, sub_qs, recvVars, callerVars, clpc, netVars, histVars >>
    /\ UNCHANGED << nClose, extVars >>

\* the peer closes the connection in an orderly way: what it sent before is
\* still read, and after that every recv returns b'' without raising
PeerClose ==
    /\ sock = "open"
    /\ sock' = "eof"
    /\ UNCHANGED << connected, resp_q, sub_qs, recvVars, callerVars, clpc, netVars, histVars >>
    /\ UNCHANGED << nClose, extVars >>

(***************************************************************************)
(* client.py: E4DeviceConnection, the handle connect_to_device returns,    *)
(* used by one thread.  subscriptions is _subscriptions and paused is      *)
(* _paused; dop is the operation called last, dpc where it stands, darg    *)
(* the stream it was called with, todo the streams the loop of             *)
(* disconnect() has not visited yet, derr the exception it raised.         *)
(* History: dlog lists the commands the handle wrote, each with the        *)
(* operation and the number of the call that wrote it and, once the reply  *)
(* is in, how the command ended; nDevOps counts the calls and nToggle the  *)
(* calls of toggle_pause that returned.                                    *)
(***************************************************************************)
DevCaller == 1

DevStreams == {"ACC", "IBI", "HR"}

DevIdle == dpc \in {"idle", "returned", "raised"}

\* the handle calls _send_command, and the command is logged if it was written
DevSend(cmd_id, kwargs) ==
    /\ SendCommand(DevCaller, cmd_id, kwargs)
    /\ dlog' = IF cpc'[DevCaller] = "wait"
               THEN Append(dlog, [cmd |-> cmd_id, kwargs |-> kwargs, op |-> dop',
                                  call |-> nDevOps', ans |-> "pending"])
               ELSE dlog

\* _send_command has ended
DevAnswered == cpc[DevCaller] \in {"returned", "raised"}

\* how the call of the client's method ends: with the exception of
\* _send_command, with ServerRequestError on a status that is not SUCCESS,
\* or normally
DevOutcome ==
    IF cpc[DevCaller] = "raised" THEN cerr[DevCaller]
    ELSE IF cresp[DevCaller].msg.status # "SUCCESS" THEN "ServerRequestError"
    ELSE "none"

\* the log once the last command written has ended
Logged ==
    IF cseq[DevCaller] > 0 /\ Len(dlog) > 0 /\ dlog[Len(dlog)].ans = "pending"
    THEN [dlog EXCEPT ![Len(dlog)].ans = DevOutcome]
    ELSE dlog

DevUnchanged ==
    UNCHANGED << clientVars, recvVars, callerVars, clpc, netVars, histVars, nClose,
                 ctorVars, restVars >>

\* subscribe_to_stream(stream): self._client.subscribe_to_stream(stream)
DevSubscribe(stream) ==
    /\ DevIdle
    /\ nDevOps < MaxDevOps
    /\ nDevOps' = nDevOps + 1
    /\ dop' = "subscribe_to_stream"
    /\ dpc' = "subscribe"
    /\ darg' = stream
    /\ derr' = "none"
    /\ DevSend("DEV_SUBSCRIBE", << <<"stream", StreamArg(stream)>>, <<"on", BoolArg(TRUE)>> >>)
    /\ UNCHANGED << subscriptions, paused, todo, nToggle, restVars >>

\* ... self._subscriptions.add(stream); return the queue
DevSubscribeDone ==
    /\ dpc = "subscribe"
    /\ DevAnswered
    /\ dlog' = Logged
    /\ IF DevOutcome = "none"
       THEN subscriptions' = subscriptions \cup {darg} /\ dpc' = "returned" /\ derr' = derr
       ELSE subscriptions' = subscriptions /\ dpc' = "raised" /\ derr' = DevOutcome
    /\ UNCHANGED << paused, dop, darg, todo, nToggle, nDevOps >>
    /\ DevUnchanged

\* unsubscribe_from_stream(stream): self._client.unsubscribe_from_stream(stream)
DevUnsubscribe(stream) ==
    /\ DevIdle
    /\ nDevOps < MaxDevOps
    /\ nDevOps' = nDevOps + 1
    /\ dop' = "unsubscribe_from_stream"
    /\ dpc' = "unsubscribe"
    /\ darg' = stream
    /\ derr' = "none"
    /\ DevSend("DEV_SUBSCRIBE", << <<"stream", StreamArg(stream)>>, <<"on", BoolArg(FALSE)>> >>)
    /\ UNCHANGED << subscriptions, paused, todo, nToggle, restVars >>

\* the unsubscribe that also empties the queue of the stream
DevUnsubscribeDoneClearing ==
    /\ dpc = "unsubscribe"
    /\ DevAnswered
    /\ dlog' = Logged
    /\ IF DevOutcome # "none"
       THEN subscriptions' = subscriptions /\ dpc' = "raised" /\ derr' = DevOutcome
       ELSE IF darg \in subscriptions
       THEN subscriptions' = subscriptions \ {darg} /\ dpc' = "returned" /\ derr' = derr
       ELSE subscriptions' = subscriptions /\ dpc' = "raised" /\ derr' = "KeyError"
    /\ sub_qs' = [sub_qs EXCEPT ![darg] = << >>]
    /\ UNCHANGED << paused, dop, darg, todo, nToggle, nDevOps >>
    /\ UNCHANGED << connected, sock, resp_q, recvVars, callerVars, clpc, netVars, histVars,
                    nClose, ctorVars, restVars >>

\* ... self._subscriptions.remove(stream), which raises KeyError on a stream
\* that is not in the set
DevUnsubscribeDone ==
    /\ dpc = "unsubscribe"
    /\ DevAnswered
    /\ dlog' = Logged
    /\ IF DevOutcome # "none"
       THEN subscriptions' = subscriptions /\ dpc' = "raised" /\ derr' = DevOutcome
       ELSE IF darg \in subscriptions
       THEN subscriptions' = subscriptions \ {darg} /\ dpc' = "returned" /\ derr' = derr
       ELSE subscriptions' = subscriptions /\ dpc' = "raised" /\ derr' = "KeyError"
    /\ UNCHANGED << paused, dop, darg, todo, nToggle, nDevOps >>
    /\ DevUnchanged

\* toggle_pause(): resume() if self._paused, else pause()
DevTogglePause ==
    /\ DevIdle
    /\ nDevOps < MaxDevOps
    /\ nDevOps' = nDevOps + 1
    /\ dop' = "toggle_pause"
    /\ dpc' = "pause"
    /\ derr' = "none"
    /\ DevSend("DEV_PAUSE", << <<"on", BoolArg(~paused)>> >>)
    /\ UNCHANGED << subscriptions, paused, darg, todo, nToggle, restVars >>

\* ... pause() or resume() checks the status; toggle_pause returns
DevToggleDone ==
    /\ dpc = "pause"
    /\ DevAnswered
    /\ dlog' = Logged
    /\ IF DevOutcome = "none"
       THEN dpc' = "returned" /\ derr' = derr /\ nToggle' = nToggle + 1
       ELSE dpc' = "raised" /\ derr' = DevOutcome /\ nToggle' = nToggle
    /\ UNCHANGED << subscriptions, paused, dop, darg, todo, nDevOps >>
    /\ DevUnchanged

\* disconnect(): the for loop starts over self._subscriptions
DevDisconnect ==
    /\ DevIdle
    /\ nDevOps < MaxDevOps
    /\ nDevOps' = nDevOps + 1
    /\ dop' = "disconnect"
    /\ dpc' = "disc_loop"
    /\ todo' = subscriptions
    /\ derr' = "none"
    /\ UNCHANGED << subscriptions, paused, darg, dlog, nToggle >>
    /\ DevUnchanged

\* the loop takes the next stream, in the set's order, and unsubscribes it;
\* after the last one: self._client.disconnect_from_device()
DevDisconnectNext ==
    /\ dpc = "disc_loop"
    /\ UNCHANGED << subscriptions, paused, dop, derr, nToggle, nDevOps, restVars >>
    /\ IF todo # {}
       THEN \E sub \in todo :
               /\ todo' = todo \ {sub}
               /\ darg' = sub
               /\ dpc' = "disc_unsub"
               /\ DevSend("DEV_SUBSCRIBE",
                          << <<"stream", StreamArg(sub)>>, <<"on", BoolArg(FALSE)>> >>)
       ELSE /\ dpc' = "disc_final"
            /\ DevSend("DEV_DISCONNECT", << >>)
            /\ UNCHANGED << todo, darg >>

\* ... the unsubscribe of the loop returns, or raises out of disconnect()
DevDisconnectUnsubDone ==
    /\ dpc = "disc_unsub"
    /\ DevAnswered
    /\ dlog' = Logged
    /\ IF DevOutcome = "none"
       THEN dpc' = "disc_loop" /\ derr' = derr
       ELSE dpc' = "raised" /\ derr' = DevOutcome
    /\ UNCHANGED << subscriptions, paused, dop, darg, todo, nToggle, nDevOps >>
    /\ DevUnchanged

\* ... disconnect_from_device() returns or raises, and so does disconnect()
DevDisconnectDone ==
    /\ dpc = "disc_final"
    /\ DevAnswered
    /\ dlog' = Logged
    /\ IF DevOutcome = "none"
       THEN dpc' = "returned" /\ derr' = derr
       ELSE dpc' = "raised" /\ derr' = DevOutcome
    /\ UNCHANGED << subscriptions, paused, dop, darg, todo, nToggle, nDevOps >>
    /\ DevUnchanged

(***************************************************************************)
(* client.py: E4StreamingClient.__init__.  ipc is where the constructor    *)
(* stands ("connect", "start", "constructed", "raised"), attempts is its   *)
(* local counter and nConnect counts the calls of socket.connect.  Whether *)
(* a connection attempt succeeds is the network's choice.                  *)
(***************************************************************************)
\* the constructor that gives up without closing the socket
InitConnectNoCleanup ==
    /\ ipc = "connect"
    /\ nConnect' = nConnect + 1
    /\ \E ok \in BOOLEAN :
          IF ok THEN sock' = "open" /\ ipc' = "start" /\ attempts' = attempts
          ELSE IF attempts < max_conn_attempts
          THEN attempts' = attempts + 1 /\ UNCHANGED << sock, ipc >>
          ELSE ipc' = "raised" /\ UNCHANGED << sock, attempts >>
    /\ UNCHANGED << connected, resp_q, sub_qs, recvVars, callerVars, clpc, netVars,
                    histVars, nClose, max_conn_attempts, devVars, restVars >>

\* one turn of the retry loop: connect, and on OSError retry or close and raise
InitConnect ==
    /\ ipc = "connect"
    /\ nConnect' = nConnect + 1
    /\ \E ok \in BOOLEAN :
          IF ok THEN sock' = "open" /\ ipc' = "start" /\ attempts' = attempts
          ELSE IF attempts < max_conn_attempts
          THEN attempts' = attempts + 1 /\ UNCHANGED << sock, ipc >>
          ELSE sock' = "closed" /\ ipc' = "raised" /\ attempts' = attempts
    /\ UNCHANGED << connected, resp_q, sub_qs, recvVars, callerVars, clpc, netVars,
                    histVars, nClose, max_conn_attempts, devVars, restVars >>

\* self._connected = True; the receive thread is created and started
InitStart ==
    /\ ipc = "start"
    /\ connected' = TRUE
    /\ rpc' = "recv"
    /\ ipc' = "constructed"
    /\ UNCHANGED << sock, resp_q, sub_qs, data, cur, rexc, callerVars, clpc, netVars,
                    histVars, nClose, attempts, nConnect, max_conn_attempts,
                    devVars, restVars >>

(***************************************************************************)
(* The specifications.  InitFields is what __init__ sets up before it      *)
(* connects; InitClient is the client as __init__ leaves it after a        *)
(* connect that succeeded at once: connected, the socket open, the mailbox *)
(* and the stream queues empty, the receive thread started.                *)
(***************************************************************************)
InitFields ==
    /\ resp_q = << >>
    /\ sub_qs = [s \in DataStreamID |-> << >>]
    /\ data = << >>
    /\ cur = NoReply
    /\ rexc = "none"
    /\ cpc = [c \in Callers |-> "idle"]
    /\ ccmd = [c \in Callers |-> "none"]
    /\ cresp = [c \in Callers |-> NoReply]
    /\ cerr = [c \in Callers |-> "none"]
    /\ cseq = [c \in Callers |-> 0]
    /\ clpc = "idle"
    /\ nClose = 0
    /\ wire_out = << >>
    /\ nDecoded = 0
    /\ nSent = 0
    /\ replyFor = << >>
    /\ nReplies = 0
    /\ evicted = {}
    /\ taken = {}
    /\ nSamples = 0
    /\ nGarbage = 0
    /\ handed = << >>

InitClient ==
    /\ InitFields
    /\ connected = TRUE
    /\ sock = "open"
    /\ rpc = "recv"
    /\ ipc = "constructed"
    /\ attempts = 0
    /\ nConnect = 1
    /\ max_conn_attempts = MaxConnAttempts

\* E4DeviceConnection.__init__
InitDevice ==
    /\ subscriptions = {}
    /\ paused = FALSE
    /\ dop = "none"
    /\ dpc = "idle"
    /\ darg = "none"
    /\ todo = {}
    /\ derr = "none"
    /\ dlog = << >>
    /\ nToggle = 0
    /\ nDevOps = 0

NoInput == [cmd |-> "none", kwargs |-> << >>, pending |-> FALSE]

\* device is the uid the operation was called for; down tells whether the
\* session was closed, or its receive loop stopped, when the operation was
\* called; wrote whether the operation wrote its command
NoCall == [op |-> "none", device |-> "none", down |-> "no", wrote |-> FALSE]

\* how a public operation ended: kind is "returned" or "raised"; exc and arg
\* are the exception and its argument; type and items are the value returned
Result(kind, exc, arg, type, items) ==
    [kind |-> kind, exc |-> exc, arg |-> arg, type |-> type, items |-> items]

NoResult == Result("none", "none", "none", "none", << >>)

\* the device list "1 | A1 Dev"
OneDevice ==
    [count |-> 1, segs |-> << [uid |-> "A1", name |-> "Dev", flag |-> "none"] >>,
     cr |-> FALSE]

\* no public operation called yet, and a server with no stream switched on
InitFacade ==
    /\ fcall = NoCall
    /\ fpc = "idle"
    /\ fres = NoResult
    /\ nOps = 0
    /\ listIn = OneDevice
    /\ srvSub = {}

Init ==
    /\ InitClient
    /\ InitDevice
    /\ encIn = NoInput
    /\ InitFacade
    /\ wire_in = << >>
    /\ crlf \in BOOLEAN
    /\ frag = FALSE
    /\ lines = << >>
    /\ partial = << >>

Next ==
    \/ \E c \in Callers, op \in Ops : CallerSend(c, op)
    \/ \E c \in Callers : CallerGet(c)
    \/ RecvRead
    \/ RecvSplit
    \/ RecvEvict
    \/ RecvPut
    \/ CloseCheck
    \/ CloseShutdown
    \/ CloseSocket
    \/ CloseJoin
    \/ CloseMark
    \/ ServerReplies
    \/ ServerSample
    \/ ServerGarbage
    \/ NetError

Spec == Init /\ [][Next]_vars

(***************************************************************************)
(* The framing runs: the receive loop alone, fed a byte stream made of     *)
(* complete lines and a trailing partial line, which the network cuts at   *)
(* arbitrary places.                                                       *)
(***************************************************************************)
FrameLines ==
    SampleLines \cup GarbageLines \cup
    { << >>,
      << "E4_Temp", SP, "1", SP, "3" >>,
      << "E4_Acc", SP, "1", SP, "2", SP, "3", SP, "1" >>,
      << "E4_Bogus", SP, "1" >>,
      << "E4_Acc", SP, "1", SP, BadBytes >>,
      << "R", SP, "device_connect", SP, "OK" >>,
      << "R", SP, "pause", SP, "ON" >>,
      << "R", SP, "pause", SP, "OFF" >>,
      << "R", SP, "device_subscribe", SP, "acc", SP, "OK" >>,
      << "R", SP, "device_subscribe", SP, "ibi", SP, "ERR" >> }

PartialLines == { << >>, << "R", SP, "device_list" >> }

RECURSIVE Flatten(_)
Flatten(ls) ==
    IF Len(ls) = 0 THEN << >> ELSE Head(ls) \o << LF >> \o Flatten(Tail(ls))

FramingInit ==
    /\ InitClient
    /\ InitDevice
    /\ encIn = NoInput
    /\ InitFacade
    /\ crlf = FALSE
    /\ frag = TRUE
    /\ \E n \in 1..MaxLines : lines \in [1..n -> FrameLines]
    /\ partial \in PartialLines
    /\ wire_in = Flatten(lines) \o partial

FramingNext ==
    \/ RecvRead
    \/ RecvSplit
    \/ RecvEvict
    \/ RecvPut

FramingSpec == FramingInit /\ [][FramingNext]_vars

(***************************************************************************)
(* The life of a client: construction with its connection attempts, the    *)
(* receive thread, what the server sends unasked, a failure of the         *)
(* connection, and close().                                                *)
(***************************************************************************)
LifecycleInit ==
    /\ InitFields
    /\ InitDevice
    /\ encIn = NoInput
    /\ InitFacade
    /\ connected = FALSE
    /\ sock = "unconnected"
    /\ rpc = "unstarted"
    /\ ipc = "connect"
    /\ attempts = 0
    /\ nConnect = 0
    /\ max_conn_attempts \in 1..MaxConnAttempts
    /\ wire_in = << >>
    /\ crlf \in BOOLEAN
    /\ frag = FALSE
    /\ lines = << >>
    /\ partial = << >>

LifecycleNext ==
    \/ InitConnect
    \/ InitStart
    \/ RecvRead
    \/ RecvSplit
    \/ CloseCheck
    \/ CloseShutdown
    \/ CloseSocket
    \/ CloseJoin
    \/ CloseMark
    \/ ServerSample
    \/ ServerGarbage
    \/ NetError
    \/ PeerClose

LifecycleSpec == LifecycleInit /\ [][LifecycleNext]_vars

\* the buffer holds no complete message: the inner loop breaks
NothingToSplit ==
    LET p == Partition(data, LF) IN NoCompleteMessage(p[2], p[3])

\* the turn of the inner loop that finds no message and goes back to recv
RecvSplitNothing == NothingToSplit /\ RecvSplit

\* the receive thread is a running thread: it takes its next step whenever
\* recv can return or raise, and goes back to recv whenever the buffer holds
\* no complete message; and a close() that was called goes on to its end.
\* Whether close() is called at all is the application's choice.
LifecycleFairSpec ==
    /\ LifecycleSpec
    /\ WF_vars(RecvRead)
    /\ WF_vars(RecvSplitNothing)
    /\ WF_vars(CloseShutdown)
    /\ WF_vars(CloseSocket)
    /\ WF_vars(CloseJoin)
    /\ WF_vars(CloseMark)

(***************************************************************************)
(* A device connection in use: one thread calls the operations of the      *)
(* handle one after another, the server answers every command, the         *)
(* receive thread delivers the replies.                                    *)
(***************************************************************************)
DeviceNext ==
    \/ \E stream \in DevStreams : DevSubscribe(stream)
    \/ DevSubscribeDone
    \/ \E stream \in DevStreams : DevUnsubscribe(stream)
    \/ DevUnsubscribeDone
    \/ DevTogglePause
    \/ DevToggleDone
    \/ DevDisconnect
    \/ DevDisconnectNext
    \/ DevDisconnectUnsubDone
    \/ DevDisconnectDone
    \/ \E c \in Callers : CallerGet(c)
    \/ RecvRead
    \/ RecvSplit
    \/ RecvEvict
    \/ RecvPut
    \/ ServerReplies

DeviceSpec == Init /\ [][DeviceNext]_vars

(***************************************************************************)
(* Streams in use: one thread subscribes and unsubscribes through the      *)
(* handle while the server sends samples of the streams, whether they are  *)
(* subscribed or not, and the receive thread queues them.  Nothing takes   *)
(* samples out of the queues.                                              *)
(***************************************************************************)
StreamSampleLines ==
    { << "E4_Acc", SP, "1", SP, "2", SP, "3", SP, "1" >>,
      << "E4_Hr", SP, "2", SP, "1" >> }

ServerStreamSample ==
    /\ sock = "open"
    /\ nSamples < MaxStreamSamples
    /\ \E line \in StreamSampleLines : wire_in' = wire_in \o line \o EOL
    /\ nSamples' = nSamples + 1
    /\ UNCHANGED << clientVars, recvVars, callerVars, clpc, wire_out, crlf, frag >>
    /\ UNCHANGED << nDecoded, nSent, replyFor, nReplies, evicted, taken,
                    nGarbage, lines, partial, handed >>
    /\ UNCHANGED << nClose, extVars >>

\* the streams the thread subscribes to and unsubscribes from
StreamsUsed == {"ACC"}

StreamNext ==
    \/ \E stream \in StreamsUsed : DevSubscribe(stream)
    \/ DevSubscribeDone
    \/ \E stream \in StreamsUsed : DevUnsubscribe(stream)
    \/ DevUnsubscribeDone
    \/ \E c \in Callers : CallerGet(c)
    \/ RecvRead
    \/ RecvSplit
    \/ RecvEvict
    \/ RecvPut
    \/ ServerReplies
    \/ ServerStreamSample

\* a server that ends its lines with a bare LF, so that its OK is read as
\* success and the subscriptions take effect
StreamInit == Init /\ crlf = FALSE

StreamSpec == StreamInit /\ [][StreamNext]_vars

(***************************************************************************)
(* The encoder alone: a call of _send_command with any command and any     *)
(* keyword arguments, of the right names and types or not.                 *)
(***************************************************************************)
ArgNames == {"dev", "timeout", "stream", "on", "bogus"}

ArgValues == { StrArg("A1"), IntArg(5), BoolArg(TRUE), BoolArg(FALSE),
               StreamArg("TEMP"), StreamArg("HR") }

\* keyword arguments: n pairs of a name and a value, no name twice
Kwargs(n) ==
    { kw \in [1..n -> ArgNames \X ArgValues] :
         \A i, j \in 1..n : i # j => kw[i][1] # kw[j][1] }

EncInputs ==
    { [cmd |-> cmd_id, kwargs |-> kw, pending |-> TRUE] :
         cmd_id \in CmdID, kw \in UNION { Kwargs(n) : n \in 0..MaxArgs } }

EncodeInit ==
    /\ InitClient
    /\ InitDevice
    /\ encIn \in EncInputs
    /\ InitFacade
    /\ wire_in = << >>
    /\ crlf = TRUE
    /\ frag = FALSE
    /\ lines = << >>
    /\ partial = << >>

\* self._send(_gen_command_string(cmd_id, **kwargs))
Encode ==
    /\ encIn.pending
    /\ encIn' = [encIn EXCEPT !.pending = FALSE]
    /\ \E c \in Callers : SendCommand(c, encIn.cmd, encIn.kwargs)
    /\ UNCHANGED << devVars, facadeVars, srvSub >>

EncodeNext == Encode

EncodeSpec == EncodeInit /\ [][EncodeNext]_vars

(***************************************************************************)
(* Decoding device lists: the payload of a device_list reply, as           *)
(* protocol.py documents it, <count> | <uid> <name> [flag] | ..., is given *)
(* to _parse_device_list as list_connected_devices does with resp.data.    *)
(* listIn is the list the server renders: the count it declares, its       *)
(* segments, and whether the line ended with CR LF, which leaves the CR at *)
(* the end of the payload.                                                 *)
(***************************************************************************)
DeviceUids == {"A1", "B2"}
DeviceFlags == {"none", "allowed", "not_allowed"}
Segments == [uid : DeviceUids, name : {"Dev"}, flag : DeviceFlags]

ListInputs ==
    [count : 0..(MaxDevices + 1),
     segs : UNION { [1..n -> Segments] : n \in 0..MaxDevices },
     cr : BOOLEAN]

RenderSegment(seg) ==
    << SP, "|", SP, seg.uid, SP, seg.name >>
        \o (IF seg.flag = "none" THEN << >> ELSE << SP, seg.flag >>)

RECURSIVE RenderSegments(_)
RenderSegments(segs) ==
    IF Len(segs) = 0 THEN << >>
    ELSE RenderSegment(Head(segs)) \o RenderSegments(Tail(segs))

RenderList(l) ==
    << ToString(l.count) >> \o RenderSegments(l.segs)
        \o (IF l.cr THEN << CR >> ELSE << >>)

\* return _parse_device_list(resp.data)
ListResult(d) ==
    LET r == parse_device_list(d)
    IN  IF r.exc # "none" THEN Result("raised", r.exc, "none", "none", << >>)
        ELSE Result("returned", "none", "none", "tuple", r.devices)

ListInit ==
    /\ InitClient
    /\ InitDevice
    /\ encIn = NoInput
    /\ fcall = NoCall
    /\ fpc = "idle"
    /\ fres = NoResult
    /\ nOps = 0
    /\ listIn \in ListInputs
    /\ srvSub = {}
    /\ wire_in = << >>
    /\ crlf = FALSE
    /\ frag = FALSE
    /\ lines = << >>
    /\ partial = << >>

ListDecode ==
    /\ fpc = "idle"
    /\ fres' = ListResult(RenderList(listIn))
    /\ fpc' = fres'.kind
    /\ UNCHANGED << clientVars, recvVars, callerVars, clpc, netVars, histVars, nClose,
                    ctorVars, devVars, encIn, fcall, nOps, listIn, srvSub >>

ListNext == ListDecode

ListSpec == ListInit /\ [][ListNext]_vars

(***************************************************************************)
(* client.py: the public operations of E4StreamingClient, called by one    *)
(* thread one after another, from the call to the value returned or the    *)
(* exception raised.  A device is given as an E4Device or as its uid.      *)
(***************************************************************************)
FacadeCaller == 1

DeviceOps == {"connect_to_device", "BTLE_connect_device", "BTLE_disconnect_device"}

FacadeOps == DeviceOps \cup {"pause", "resume", "list_connected_devices"}

NoDevice == [isDevice |-> FALSE, uid |-> "none"]

FacadeDevices == { [isDevice |-> TRUE, uid |-> "A1"], [isDevice |-> FALSE, uid |-> "B2"] }

FacadeArgs(op) == IF op \in DeviceOps THEN FacadeDevices ELSE {NoDevice}

\* device = device.uid if isinstance(device, E4Device) else device
DeviceUid(device) == device.uid

FacadeCmd(op) ==
    CASE op = "connect_to_device" -> "DEV_CONNECT"
      [] op = "BTLE_connect_device" -> "DEV_CONNECT_BTLE"
      [] op = "BTLE_disconnect_device" -> "DEV_DISCONNECT_BTLE"
      [] op = "list_connected_devices" -> "DEV_LIST"
      [] op \in {"pause", "resume"} -> "DEV_PAUSE"

FacadeKwargs(op, uid) ==
    CASE op = "connect_to_device" -> << <<"dev", StrArg(uid)>> >>
      [] op = "BTLE_connect_device" ->
             << <<"dev", StrArg(uid)>>, <<"timeout", IntArg(200)>> >>
      [] op = "BTLE_disconnect_device" -> << <<"dev", StrArg(uid)>> >>
      [] op = "list_connected_devices" -> << >>
      [] op = "pause" -> << <<"on", BoolArg(TRUE)>> >>
      [] op = "resume" -> << <<"on", BoolArg(FALSE)>> >>

\* connect_to_device that hands out a handle whatever the status
ConnectResultAlways(resp, device) ==
    Result("returned", "none", "none", "E4DeviceConnection", << device >>)

\* connect_to_device: the handle on SUCCESS, else DeviceNotFoundError(device)
ConnectResult(resp, device) ==
    IF resp.status = "SUCCESS"
    THEN Result("returned", "none", "none", "E4DeviceConnection", << device >>)
    ELSE Result("raised", "DeviceNotFoundError", device, "none", << >>)

\* BTLE_connect_device, BTLE_disconnect_device: BTLEConnectionError(device)
\* unless SUCCESS
BTLEResult(resp, device) ==
    IF resp.status # "SUCCESS"
    THEN Result("raised", "BTLEConnectionError", device, "none", << >>)
    ELSE Result("returned", "none", "none", "None", << >>)

\* pause, resume: ServerRequestError(resp.data) unless SUCCESS
PauseResult(resp) ==
    IF resp.status # "SUCCESS"
    THEN Result("raised", "ServerRequestError", resp.data, "none", << >>)
    ELSE Result("returned", "none", "none", "None", << >>)

OpResult(op, resp, device) ==
    CASE op = "connect_to_device" -> ConnectResult(resp, device)
      [] op \in {"BTLE_connect_device", "BTLE_disconnect_device"} -> BTLEResult(resp, device)
      [] op = "list_connected_devices" -> ListResult(resp.data)
      [] op \in {"pause", "resume"} -> PauseResult(resp)

\* the state of the session as the caller finds it
SessionDown ==
    IF ~connected THEN "closed"
    ELSE IF rpc \in {"done", "crashed"} THEN "stopped"
    ELSE "no"

\* the operation is called: it resolves the device and calls _send_command
FacadeCall(op, device) ==
    /\ ipc = "constructed"
    /\ fpc \in {"idle", "returned", "raised"}
    /\ nOps < MaxOps
    /\ nOps' = nOps + 1
    /\ fpc' = "call"
    /\ fres' = NoResult
    /\ SendCommand(FacadeCaller, FacadeCmd(op), FacadeKwargs(op, DeviceUid(device)))
    /\ fcall' = [op |-> op, device |-> DeviceUid(device), down |-> SessionDown,
                 wrote |-> cpc'[FacadeCaller] = "wait"]
    /\ UNCHANGED << devVars, encIn, listIn, srvSub >>

\* _send_command has returned or raised: the operation checks the status
\* and returns or raises
FacadeDone ==
    /\ fpc = "call"
    /\ cpc[FacadeCaller] \in {"returned", "raised"}
    /\ fres' = IF cpc[FacadeCaller] = "raised"
               THEN Result("raised", cerr[FacadeCaller], "none", "none", << >>)
               ELSE OpResult(fcall.op, cresp[FacadeCaller].msg, fcall.device)
    /\ fpc' = fres'.kind
    /\ UNCHANGED << clientVars, recvVars, callerVars, clpc, netVars, histVars, nClose,
                    ctorVars, devVars, encIn, fcall, nOps, listIn, srvSub >>

FacadeNext ==
    \/ \E op \in FacadeOps : \E device \in FacadeArgs(op) : FacadeCall(op, device)
    \/ FacadeDone
    \/ \E c \in Callers : CallerGet(c)
    \/ RecvRead
    \/ RecvSplit
    \/ RecvEvict
    \/ RecvPut
    \/ ServerReplies

FacadeSpec == Init /\ [][FacadeNext]_vars

\* the same with what takes a session down: lines the client cannot decode,
\* a failure of the connection, and close()
FacadeDownNext ==
    \/ FacadeNext
    \/ CloseCheck
    \/ CloseShutdown
    \/ CloseSocket
    \/ CloseJoin
    \/ CloseMark
    \/ ServerGarbage
    \/ NetError

FacadeDownSpec == Init /\ [][FacadeDownNext]_vars

\* the receive loop has stopped for good, or has read all there is
FramingAtRest == rpc = "crashed" \/ (rpc = "recv" /\ Len(wire_in) = 0)

Decodable(line) ==
    /\ Utf8Decode(line).exc = "none"
    /\ parse_incoming_message(line).exc = "none"

(***************************************************************************)
(* The claims.                                                             *)
(***************************************************************************)
\* the callers whose command is written and not yet answered
InFlight == { c \in Callers : cpc[c] = "wait" }

\* C1: at most one command is in flight at a time, every caller that took a
\* reply took the reply to its own command, and no reply was discarded in
\* favour of another one.
C1_OneCommandInFlight ==
    /\ Cardinality(InFlight) <= 1
    /\ \A c \in Callers : cresp[c].id # 0 => cresp[c].tag = cseq[c]
    /\ evicted = {}

\* a call that can never return: it waits on an empty mailbox and the receive
\* thread, the only thread that fills the mailbox, has ended
Stuck(c) ==
    /\ cpc[c] = "wait"
    /\ Len(resp_q) = 0
    /\ rpc \in {"done", "crashed"}

\* once stuck, a call stays stuck in every later state
StuckIsForever == [][\A c \in Callers : Stuck(c) => Stuck(c)']_vars

\* C2: a call blocked waiting for its reply when close() is called returns: it
\* is never left stuck once close() has closed the socket and the receive
\* thread has ended on it.
C2_CloseWakesBlockedCall ==
    \A c \in Callers : (sock = "closed" /\ rpc = "done") => ~Stuck(c)

\* C3: a call blocked waiting for its reply when the receive loop ends on a
\* transport read error returns: it is never left stuck after that error.
C3_ReadErrorWakesBlockedCall ==
    \A c \in Callers : (sock = "reset" /\ rpc = "done") => ~Stuck(c)

\* C4: once the receive loop is at rest, the messages it handed to the decoder
\* are the original lines, in order, each once, and what is left unprocessed
\* is the trailing partial line.
C4_FramingRoundTrip ==
    FramingAtRest => (handed = lines /\ data \o wire_in = partial)

\* every place a decoded message can be in, and how many times message id is there
Occurrences(id) ==
    Cardinality({ << s, i >> \in DataStreamID \X (1..nDecoded) :
                     i <= Len(sub_qs[s]) /\ sub_qs[s][i].id = id })
    + Cardinality({ i \in 1..Len(resp_q) : resp_q[i].id = id })
    + (IF id \in taken THEN 1 ELSE 0)
    + (IF id \in evicted THEN 1 ELSE 0)

\* the receive loop holds a decoded reply it has not deposited yet
Depositing == rpc \in {"evict", "put"}

\* C5: every decoded message is in exactly one place: one stream queue, the
\* mailbox, a caller's hands, or discarded from the mailbox by a newer reply;
\* the one the receive loop is still depositing is in none yet.
C5_DeliveredExactlyOnce ==
    \A id \in 1..nDecoded :
        Occurrences(id) = (IF Depositing /\ cur.id = id THEN 0 ELSE 1)

C5_Witness ==
    /\ evicted # {}
    /\ taken # {}
    /\ \E s \in DataStreamID : Len(sub_qs[s]) > 0
    /\ ~Depositing

\* C6: the mailbox never holds more than one reply; when the receive loop
\* completes the deposit of a reply the mailbox holds exactly that reply; and
\* whenever the loop is not depositing, a reply in the mailbox is the newest
\* one decoded.
C6_MailboxHoldsNewest ==
    /\ [](Len(resp_q) <= 1)
    /\ []((~Depositing /\ Len(resp_q) > 0) => resp_q = << cur >>)
    /\ [][(rpc = "put" /\ rpc' # "put") => resp_q' = << cur >>]_vars

C6_Witness ==
    /\ evicted # {}
    /\ rpc = "split"
    /\ resp_q = << cur >>

\* C7: a caller that took a reply returns it when its command kind is the kind
\* of the command issued, and fails with an AssertionError when it is not.
C7_MismatchRaises ==
    \A c \in Callers :
        cresp[c].id # 0 =>
            IF cresp[c].msg.command = ccmd[c]
            THEN cpc[c] = "returned"
            ELSE cpc[c] = "raised" /\ cerr[c] = "AssertionError"

C7_Witness ==
    \E c \in Callers :
        /\ cresp[c].id # 0
        /\ cresp[c].msg.command # ccmd[c]
        /\ cerr[c] = "AssertionError"

\* C8: once a call has failed on a reply of another command kind, the session
\* is closed: is_connected is false and the receive loop has stopped.
C8_MismatchClosesSession ==
    \A c \in Callers :
        cerr[c] = "AssertionError" => (~connected /\ rpc \in {"done", "crashed"})

\* C9: a line that cannot be decoded does not stop the receive loop, and every
\* decodable line of the input is decoded once the loop has read all there is.
C9_UndecodableLineSkipped ==
    /\ rpc # "crashed"
    /\ (rpc = "recv" /\ Len(wire_in) = 0) =>
           nDecoded = Cardinality({ i \in 1..Len(lines) : Decodable(lines[i]) })

\* C10: after the receive loop has stopped on a transport read error,
\* is_connected is false.
C10_ReadErrorClosesSession ==
    (rpc = "done" /\ sock = "reset") => ~connected

\* the receive thread has ended
RecvEnded == rpc \in {"done", "crashed"}

\* a step of the receive thread is possible: it is not in recv, or recv has
\* something to return or to raise
RecvCanStep ==
    \/ rpc \in {"split", "evict", "put"}
    \/ rpc = "recv" /\ (sock # "open" \/ Len(wire_in) > 0)

\* a close() that reached the join is never left waiting: the receive thread
\* has ended or can take a step, and what it returns to is a closed session
CloseReturnsClosed ==
    /\ clpc = "join" => (RecvEnded \/ RecvCanStep)
    /\ clpc \in {"mark", "returned"} /\ nClose > 0 => (sock = "closed" /\ RecvEnded)
    /\ clpc = "returned" /\ nClose > 0 => ~connected

\* C11: a call of close() on a client whose is_connected is true always runs
\* to its end: it does not end with an exception, it is never left waiting at
\* the join, and when it has returned the socket is shut down and closed, the
\* receive thread has ended and is_connected is false.
C11_CloseCompletes ==
    /\ clpc # "raised"
    /\ CloseReturnsClosed

\* a close() has completed on the constructed client
Closed == ipc = "constructed" /\ ~connected

\* C12: once a close() has completed, every later call of close() returns at
\* once without raising, performs no socket operation and leaves the state
\* of the client and of its receive thread unchanged.
C12_CloseIdempotent ==
    /\ [](Closed => clpc = "returned")
    /\ [][(Closed /\ nClose' # nClose)
            => (clpc' = "returned" /\ UNCHANGED << clientVars, recvVars >>)]_vars

C12_Witness == Closed /\ nClose >= 2 /\ clpc = "returned"

\* C13: the constructor never calls connect more than max_conn_attempts times.
C13_ConnectAtMostMax == nConnect <= max_conn_attempts

\* C14: when every connection attempt has failed the constructor has raised
\* with the socket closed, and from then on the receive thread is never
\* started and is_connected is never true.
C14_FailedConstruction ==
    /\ [](ipc = "raised" => (sock = "closed" /\ rpc = "unstarted" /\ ~connected))
    /\ [][ipc = "raised" => (ipc' = "raised" /\ rpc' = "unstarted" /\ ~connected')]_vars

C14_Witness == ipc = "raised" /\ nConnect > 1 /\ attempts = max_conn_attempts

\* the line decodes as a sample
IsSample(line) ==
    Decodable(line) /\ parse_incoming_message(line).type = "STREAM_DATA"

\* the stream id of the definition whose prefix the line starts with
PrefixStream(line) ==
    stream_defs[CHOOSE j \in 1..Len(stream_defs) :
                    stream_defs[j].resp_prefix = line[1]].stream_id

\* the numbers of a sample line in the order they are on the wire: the
\* timestamp, then the values
WireTuple(line) ==
    [i \in 1..((Len(line) - 1) \div 2) |-> NumVal(line[2 * i + 1])]

\* what the queue of stream s must hold: the tuples of the sample lines of s
\* among the lines handed to the decoder, in the order they were handed
ExpectedQueue(s) ==
    LET OfStream(line) == IsSample(line) /\ PrefixStream(line) = s
        ls == SelectSeq(handed, OfStream)
    IN  [i \in 1..Len(ls) |-> WireTuple(ls[i])]

Items(q) == [i \in 1..Len(q) |-> q[i].item]

\* C15: the queue of every stream holds exactly the samples decoded for that
\* stream, each as (timestamp, values in wire order), in the order they
\* arrived; a sample is on its queue in the very step that handed its line to
\* the decoder, however many samples the queues hold unconsumed.
C15_SampleRouting ==
    \A s \in DataStreamID : Items(sub_qs[s]) = ExpectedQueue(s)

C15_Witness ==
    /\ \E s \in DataStreamID :
          Len(sub_qs[s]) = 2 /\ sub_qs[s][1].item # sub_qs[s][2].item
    /\ rpc = "recv"

\* the commands answered by a status, other than pause
StatusCommands ==
    { cmd_defs[j].cmd_id : j \in { k \in 1..Len(cmd_defs) : ~cmd_defs[k].is_query } }
        \ {"DEV_PAUSE"}

\* the reply is decoded as success exactly when the line the server sent ends
\* with the token OK
StatusAsSent(reply, k) ==
    reply.msg.command \in StatusCommands =>
        (reply.msg.status = "SUCCESS" <=> replyFor[k].tok = "OK")

\* C16: with a server that ends its lines with CR LF, a status reply is
\* decoded as success exactly when its status token is OK, both as the
\* receive loop decodes it and as a caller receives it.
C16_CrLfStatusDecoded ==
    crlf =>
        /\ nReplies > 0 => StatusAsSent(cur, nReplies)
        /\ \A c \in Callers : cresp[c].id # 0 => StatusAsSent(cresp[c], cresp[c].tag)

\* the same for a server that ends its lines with a bare LF
LfStatusDecoded ==
    ~crlf =>
        /\ nReplies > 0 => StatusAsSent(cur, nReplies)
        /\ \A c \in Callers : cresp[c].id # 0 => StatusAsSent(cresp[c], cresp[c].tag)

\* the last operation called on the handle was disconnect() and it has ended
DisconnectEnded == dop = "disconnect" /\ dpc \in {"returned", "raised"}

\* entry i of the log is an unsubscribe of stream sub written by the running,
\* or the last, call
IsUnsubscribe(i, sub) ==
    /\ dlog[i].call = nDevOps
    /\ dlog[i].kwargs = << <<"stream", StreamArg(sub)>>, <<"on", BoolArg(FALSE)>> >>

\* entry i of the log is the device-disconnect command of that call
IsDisconnect(i) == dlog[i].call = nDevOps /\ dlog[i].cmd = "DEV_DISCONNECT"

\* every stream of the subscription set was sent an unsubscribe by that call
AllUnsubscribed ==
    \A sub \in subscriptions : \E i \in 1..Len(dlog) : IsUnsubscribe(i, sub)

\* C17: when disconnect() has ended it has sent an unsubscribe for every
\* stream of the subscription set; and when it sends the device-disconnect
\* command, an unsubscribe for every stream of the set was sent before and
\* has been answered.
C17_DisconnectUnsubscribesAll ==
    /\ DisconnectEnded => AllUnsubscribed
    /\ dop = "disconnect" =>
          \A i \in 1..Len(dlog) :
              IsDisconnect(i) =>
                  \A sub \in subscriptions :
                      \E j \in 1..(i - 1) :
                          IsUnsubscribe(j, sub) /\ dlog[j].ans # "pending"

\* an unsubscribe of that call has failed
UnsubscribeFailed ==
    \E i \in 1..Len(dlog) :
        /\ dlog[i].call = nDevOps
        /\ dlog[i].cmd = "DEV_SUBSCRIBE"
        /\ dlog[i].ans \notin {"pending", "none"}

\* C18: when disconnect() has ended after one of its unsubscribes failed, it
\* has raised, and before raising it has sent an unsubscribe for every stream
\* of the set and the device-disconnect command.
C18_DisconnectAttemptsAll ==
    (DisconnectEnded /\ UnsubscribeFailed) =>
        /\ dpc = "raised"
        /\ AllUnsubscribed
        /\ \E i \in 1..Len(dlog) : IsDisconnect(i)

\* the pause commands written by toggle_pause, in order
ToggleLog ==
    LET ByToggle(entry) == entry.op = "toggle_pause"
    IN  SelectSeq(dlog, ByToggle)

\* C19: the calls of toggle_pause send pause ON, pause OFF, pause ON, ... in
\* turn, and between calls is_paused is true exactly when an odd number of
\* calls have returned.
C19_TogglePauseAlternates ==
    /\ \A k \in 1..Len(ToggleLog) :
          ToggleLog[k].kwargs = << <<"on", BoolArg(k % 2 = 1)>> >>
    /\ DevIdle => (paused <=> nToggle % 2 = 1)

\* a disconnect() whose unsubscribes all succeeded sent them all, then the
\* device-disconnect command
DisconnectInOrder ==
    (DisconnectEnded /\ ~UnsubscribeFailed) =>
        /\ AllUnsubscribed
        /\ \E i \in 1..Len(dlog) :
              /\ IsDisconnect(i)
              /\ \A sub \in subscriptions :
                    \E j \in 1..(i - 1) : IsUnsubscribe(j, sub) /\ dlog[j].ans = "none"

\* the reference encoder.  The text of a value:
RefText(v) ==
    CASE v.type = "bool" -> IF v.val THEN "ON" ELSE "OFF"
      [] v.type = "DataStreamID" ->
             (CHOOSE d \in { stream_defs[j] : j \in 1..Len(stream_defs) } :
                  d.stream_id = v.val).cmd_abbrv
      [] v.type = "int" -> ToString(v.val)
      [] OTHER -> v.val

RefNames(pairs) == { pairs[i][1] : i \in 1..Len(pairs) }

\* the supplied names are not exactly the schema's, or a value has not the
\* schema's type
RefMalformed(schema, kwargs) ==
    \/ RefNames(kwargs) # RefNames(schema)
    \/ \E i \in 1..Len(kwargs), j \in 1..Len(schema) :
           kwargs[i][1] = schema[j][1] /\ kwargs[i][2].type # schema[j][2]

\* a space and the text of the argument, for each name of the schema in turn
RECURSIVE RefArgs(_, _)
RefArgs(schema, kwargs) ==
    IF Len(schema) = 0 THEN << >>
    ELSE LET i == CHOOSE k \in 1..Len(kwargs) : kwargs[k][1] = schema[1][1]
         IN  << SP, RefText(kwargs[i][2]) >> \o RefArgs(Tail(schema), kwargs)

RefLine(def, kwargs) == << def.cmd >> \o RefArgs(def.args, kwargs) \o << CR, LF >>

\* the call agrees with the reference: an error and nothing written, or the
\* reference line written
AgreesWithReference(def) ==
    IF RefMalformed(def.args, encIn.kwargs)
    THEN wire_out = << >> /\ nSent = 0 /\ \E c \in Callers : cpc[c] = "raised"
    ELSE wire_out = << RefLine(def, encIn.kwargs) >>

Encoded == encIn.cmd # "none" /\ ~encIn.pending

\* C20: for every command and every set of keyword arguments, the call
\* fails and writes nothing when the names are not exactly the schema's or
\* a value has not the schema's type, and otherwise writes the command name,
\* then a space and the text of each argument in the schema's order
\* (booleans as ON/OFF, stream ids as their abbreviation), then CR LF.
C20_EncodeAgreesWithReference ==
    Encoded => AgreesWithReference(id_to_cmd(encIn.cmd))

\* the same for the commands that take arguments only
EncodeAgreesWithArguments ==
    (Encoded /\ Len(id_to_cmd(encIn.cmd).args) > 0)
        => AgreesWithReference(id_to_cmd(encIn.cmd))

\* the commands without arguments are written with a space after the name
EncodeNoArguments ==
    (Encoded /\ Len(id_to_cmd(encIn.cmd).args) = 0) =>
        IF Len(encIn.kwargs) # 0
        THEN wire_out = << >> /\ \E c \in Callers : cpc[c] = "raised"
        ELSE wire_out = << << id_to_cmd(encIn.cmd).cmd, SP, CR, LF >> >>

\* the line the receive loop handed to the decoder last
LastHanded == handed[Len(handed)]

\* the receive loop has just decoded a reply from the last line handed
JustDecoded == rpc = "evict" /\ Len(handed) > 0

\* the line is R device_subscribe <abbrev> <status>
IsSubscribeReply(line) ==
    /\ Len(line) = 7
    /\ SubSeq(line, 1, 4) = << "R", SP, "device_subscribe", SP >>
    /\ line[6] = SP

\* C22: a subscribe reply R device_subscribe <abbrev> <status> is decoded as
\* the status response of the subscribe command, success exactly when
\* <status> is OK, with no payload: the abbreviation is nowhere in it.
C22_SubscribeEchoSkipped ==
    (JustDecoded /\ IsSubscribeReply(LastHanded)) =>
        cur.msg = ServerReply("DEV_SUBSCRIBE",
                              IF LastHanded[7] = "OK" THEN "SUCCESS" ELSE "ERROR",
                              None)

C22_Witness ==
    /\ JustDecoded
    /\ IsSubscribeReply(LastHanded)
    /\ cur.msg.status = "SUCCESS"
    /\ Len(handed) = 2

\* the wire abbreviation of a stream
Abbrev(stream) ==
    (CHOOSE d \in { stream_defs[j] : j \in 1..Len(stream_defs) } :
         d.stream_id = stream).cmd_abbrv

\* the stream of a subscribe or unsubscribe command of the log
LogStream(entry) == entry.kwargs[1][2].val

\* the subscription set after the first n commands of the log, when each is
\* one successful subscribe_to_stream or unsubscribe_from_stream
RECURSIVE SetAfter(_)
SetAfter(n) ==
    IF n = 0 THEN {}
    ELSE IF dlog[n].op = "subscribe_to_stream"
         THEN SetAfter(n - 1) \cup {LogStream(dlog[n])}
         ELSE SetAfter(n - 1) \ {LogStream(dlog[n])}

\* the handle is between calls, and every call made so far was a
\* subscribe_to_stream or an unsubscribe_from_stream that returned
OnlySuccessfulCalls ==
    /\ dpc \in {"idle", "returned"}
    /\ Len(dlog) = nDevOps
    /\ \A i \in 1..Len(dlog) :
          /\ dlog[i].op \in {"subscribe_to_stream", "unsubscribe_from_stream"}
          /\ dlog[i].ans = "none"
          /\ dlog[i].op = "unsubscribe_from_stream"
                => LogStream(dlog[i]) \in SetAfter(i - 1)

\* C29: after any sequence of successful subscribe_to_stream and
\* unsubscribe_from_stream calls on the handle, the server's flag of the
\* abbreviation of every stream of the subscription set is ON.
C29_SubscribedOnServer ==
    OnlySuccessfulCalls => \A stream \in subscriptions : Abbrev(stream) \in srvSub

\* the same for the streams that share their abbreviation with no other
SubscribedOnServerUnshared ==
    OnlySuccessfulCalls => ("ACC" \in subscriptions => Abbrev("ACC") \in srvSub)

\* C30: after disconnect() has returned, the subscription set is empty.
C30_DisconnectClearsSet ==
    (dop = "disconnect" /\ dpc = "returned") => subscriptions = {}

\* a disconnect() that returned sent the unsubscribes and the
\* device-disconnect command, and left the set as it was
DisconnectKeepsSet ==
    [][(dpc = "disc_final" /\ dpc' = "returned") => subscriptions' = subscriptions]_vars

\* C26: with a single caller issuing commands one after another and one
\* reply per command, the mailbox is empty whenever no command is in flight,
\* no reply is ever discarded from it, and a call that returned holds the
\* reply the server sent for its own command.
C26_SingleCallerInStep ==
    /\ cpc[DevCaller] # "wait" => resp_q = << >>
    /\ evicted = {}
    /\ cpc[DevCaller] = "returned" =>
          /\ cresp[DevCaller].tag = cseq[DevCaller]
          /\ cresp[DevCaller].tag = nSent

C26_Witness ==
    /\ cpc[DevCaller] = "returned"
    /\ nSent = 2
    /\ cresp[DevCaller].tag = 2
    /\ taken = {1, 2}

\* C27: whenever the receive loop is about to run put_nowait the mailbox is
\* empty, whatever the callers took in between, and the loop never ends on
\* queue.Full.
C27_PutNeverFull ==
    /\ rpc = "put" => Len(resp_q) = 0
    /\ rexc # "Full"

C27_Witness ==
    /\ rpc = "put"
    /\ evicted # {}
    /\ \E c \in Callers : cpc[c] = "wait"

\* C28: once the peer has closed the connection in an orderly way, the
\* receive loop terminates.
\* the peer has closed, and the receive loop has read and handed on all the
\* peer had sent
PeerClosedAndDrained ==
    /\ sock = "eof"
    /\ wire_in = << >>
    /\ data = << >>
    /\ rpc \in {"recv", "split"}

\* C28: once the peer has closed the connection in an orderly way and all it
\* sent has been read, so that every read returns zero bytes, the receive
\* loop terminates.
C28_PeerCloseEndsLoop == PeerClosedAndDrained ~> RecvEnded

\* after a connection failure, where recv raises, the receive loop ends
ResetEndsLoop == (sock = "reset" /\ data = << >> /\ rpc \in {"recv", "split"}) ~> RecvEnded

\* the devices a rendered list describes: one for each segment, in order,
\* allowed when the flag is absent or is "allowed"
ExpectedDevices(l) ==
    [i \in 1..Len(l.segs) |->
        [uid |-> << l.segs[i].uid >>, name |-> << l.segs[i].name >>,
         allowed |-> l.segs[i].flag \in {"none", "allowed"}]]

\* C24: a device-list payload <count> | <uid> <name> [flag] | ... decodes to
\* one device for each segment, in segment order, allowed being true when
\* the flag is absent or equals "allowed" and false otherwise; and decoding
\* fails whenever the declared count is not the number of segments.
C24_DeviceListDecoded ==
    fpc # "idle" =>
        IF listIn.count # Len(listIn.segs)
        THEN fres.kind = "raised"
        ELSE fres.kind = "returned" /\ fres.items = ExpectedDevices(listIn)

C24_Witness ==
    /\ fres.kind = "returned"
    /\ Len(fres.items) = 2
    /\ fres.items[1].allowed
    /\ ~fres.items[2].allowed
    /\ listIn.cr

\* a declared count that is not the number of segments fails the sanity
\* check of the decoder
DeviceListCountChecked ==
    (fpc # "idle" /\ listIn.count # Len(listIn.segs)) => fres.exc = "AssertionError"

\* the operation has ended
FacadeEnded == fpc \in {"returned", "raised"}

\* the operation has ended after _send_command returned a reply
FacadeAnswered == FacadeEnded /\ cpc[FacadeCaller] = "returned"

\* C21: a pause reply, R pause ON or R pause OFF, is decoded as the status
\* response of the pause command with status success and no payload; and a
\* pause() or resume() that received a pause reply has returned, it has not
\* raised ServerRequestError.
C21_PauseReplyIsSuccess ==
    /\ cur.msg.command = "DEV_PAUSE" => cur.msg = ServerReply("DEV_PAUSE", "SUCCESS", None)
    /\ (fcall.op \in {"pause", "resume"} /\ FacadeAnswered)
           => (fpc = "returned" /\ fres.exc = "none")

C21_Witness ==
    /\ fcall.op = "resume"
    /\ fpc = "returned"
    /\ replyFor[cresp[FacadeCaller].tag].tok = "OFF"
    /\ nOps = 2

\* C23: connect_to_device, BTLE_connect_device and BTLE_disconnect_device
\* return exactly when the status of the reply is success; on another
\* status each raises its error with the device id; and connect_to_device
\* alone returns a device-connection handle, for that device.
C23_ConnectOutcome ==
    (fcall.op \in DeviceOps /\ FacadeAnswered) =>
        IF cresp[FacadeCaller].msg.status = "SUCCESS"
        THEN /\ fres.kind = "returned"
             /\ IF fcall.op = "connect_to_device"
                THEN fres.type = "E4DeviceConnection" /\ fres.items = << fcall.device >>
                ELSE fres.type = "None"
        ELSE /\ fres.kind = "raised"
             /\ fres.type = "none"
             /\ fres.arg = fcall.device
             /\ fres.exc = IF fcall.op = "connect_to_device"
                           THEN "DeviceNotFoundError" ELSE "BTLEConnectionError"

C23_Witness ==
    /\ fcall.op = "connect_to_device"
    /\ fres.exc = "DeviceNotFoundError"
    /\ fres.arg = "A1"
    /\ nOps = 2

\* C25: an operation called when the session was closed, or when its receive
\* loop had stopped, writes no command and fails: it does not block.
C25_DownSessionFails ==
    fcall.down # "no" =>
        /\ ~fcall.wrote
        /\ cpc[FacadeCaller] = "raised"

\* an operation called after close() has completed, or after the receive
\* loop ended on an error of the socket, writes nothing and raises OSError
ClosedSessionFails ==
    (fcall.down # "no" /\ rpc # "crashed") =>
        /\ ~fcall.wrote
        /\ cpc[FacadeCaller] = "raised"
        /\ cerr[FacadeCaller] = "OSError"

\* queue q is the beginning of queue r
IsPrefix(q, r) == Len(q) <= Len(r) /\ SubSeq(r, 1, Len(q)) = q

\* the numbers of the decoded messages that are in the stream queues
QueuedIds == UNION { { sub_qs[s][i].id : i \in 1..Len(sub_qs[s]) } : s \in DataStreamID }

\* a step of the handle: a call starts or ends, or the subscription set changes
HandleStep == dpc' # dpc \/ nDevOps' # nDevOps \/ subscriptions' # subscriptions

\* C31: subscribing and unsubscribing leave the stream queues untouched.  No
\* step of the handle changes a queue; a queue only ever grows at its end,
\* so no sample is removed and earlier samples stay ahead of new ones; and
\* every sample decoded is in a queue, whether or not its stream is in the
\* subscription set.
C31_QueuesUntouched ==
    /\ [][HandleStep => sub_qs' = sub_qs]_vars
    /\ [][\A s \in DataStreamID : IsPrefix(sub_qs[s], sub_qs'[s])]_vars
    /\ [](Cardinality(QueuedIds) = nDecoded - nReplies)

\* ACC was subscribed, unsubscribed and subscribed again; its queue holds a
\* sample decoded between the first two replies and then one decoded after
\* the reply to the unsubscribe and before the reply to the second subscribe
C31_Witness ==
    /\ dop = "subscribe_to_stream" /\ dpc = "returned" /\ darg = "ACC"
    /\ Len(dlog) = 3
    /\ dlog[2].op = "unsubscribe_from_stream"
    /\ \A i \in 1..3 : LogStream(dlog[i]) = "ACC" /\ dlog[i].ans = "none"
    /\ Len(sub_qs["ACC"]) = 2
    /\ sub_qs["ACC"][1].id = 2
    /\ sub_qs["ACC"][2].id = 4
    /\ cresp[DevCaller].id = 5

=============================================================================
